---- MODULE Spec2Model ----
(***************************************************************************)
(* Model of scripts/detect_notes.py (mania2midi): the chunk loop that      *)
(* collects bar-line and note detections in global Y, the bar-line         *)
(* estimator, the grid builder, the quantizer and the result writer.       *)
(*                                                                         *)
(* Pixel classification is abstracted to its result: a chunk is given by   *)
(* its height, the set of rows that are bar rows (is_bar_row), the bar     *)
(* segments whose 2-D fill ratio exceeds 0.8, and per lane the set of rows *)
(* that are note rows (is_note_row).  Floating point numbers are modelled  *)
(* as exact rationals <<numerator, denominator>> in lowest terms.          *)
(***************************************************************************)
EXTENDS Integers, Sequences, FiniteSets, TLC

\* ------------------------------------------------------------ bounds
\* Number of chunk files the run may find in the input directory.
MaxChunks == 2

\* ------------------------------------------------- program constants
Lanes == 9
MinHeight == 3
MergeGap == 5
BeatsPerBar == 4
BarsPerLine == 1
BarMaxHeight == 10
BarTolerance == 5
Subdivisions == 192

\* ------------------------------------------------- rational numbers
Abs(x) == IF x < 0 THEN -x ELSE x

RECURSIVE GCD(_, _)
GCD(a, b) == IF b = 0 THEN a ELSE GCD(b, a % b)

\* The rational n/d in lowest terms with a positive denominator (d # 0).
Rat(n, d) ==
    LET g == GCD(Abs(n), Abs(d))
        s == IF d < 0 THEN -1 ELSE 1
    IN  <<(s * n) \div g, (s * d) \div g>>

FromInt(n) == <<n, 1>>
Zero == <<0, 1>>

\* Sums and products cancel common factors before multiplying.
RAdd(a, b) ==
    LET g == GCD(a[2], b[2])
    IN  Rat(a[1] * (b[2] \div g) + b[1] * (a[2] \div g), (a[2] \div g) * b[2])

RNeg(a) == <<-a[1], a[2]>>
RSub(a, b) == RAdd(a, RNeg(b))

RMul(a, b) ==
    LET g1 == GCD(Abs(a[1]), b[2])
        g2 == GCD(Abs(b[1]), a[2])
    IN  Rat((a[1] \div g1) * (b[1] \div g2), (a[2] \div g2) * (b[2] \div g1))

RDiv(a, b) == RMul(a, Rat(b[2], b[1]))
RLt(a, b) ==
    LET g == GCD(a[2], b[2]) IN a[1] * (b[2] \div g) < b[1] * (a[2] \div g)

RLe(a, b) ==
    LET g == GCD(a[2], b[2]) IN a[1] * (b[2] \div g) <= b[1] * (a[2] \div g)

RAbs(a) == <<Abs(a[1]), a[2]>>

\* Python's round(x): to the nearest integer, ties to the even one.
Round(a) ==
    LET f == a[1] \div a[2]
        r == a[1] - f * a[2]
    IN  IF 2 * r < a[2] THEN f
        ELSE IF 2 * r > a[2] THEN f + 1
        ELSE IF f % 2 = 0 THEN f ELSE f + 1

\* Python's round(x, 2).
Round2(a) == Rat(Round(RMul(a, FromInt(100))), 100)

\* ------------------------------------------------------------ inputs
\* metadata.json: any of the three fields may be absent (or the file may).
FullMetadata == [fps |-> FromInt(30), speed |-> FromInt(10), start_time |-> FromInt(1)]

MetadataChoices ==
    { [k \in D |-> FullMetadata[k]] :
        D \in { {"fps", "speed", "start_time"}, {"speed", "start_time"},
                {"fps", "start_time"}, {"fps", "speed"}, {} } }

\* The run of h mask rows whose centre lies off2/2 pixels above the bottom
\* row edge of a chunk of the given height (off2 + h is even).
Band(height, off2, h) ==
    LET start == height - ((off2 + h) \div 2)
    IN  start .. (start + h - 1)

\* is_bar_row masks with, for each, the rows of the segments whose fill
\* ratio over the 2-D block exceeds 0.8.  Lines 100, 200, 201 and 300 pixels
\* above the chunk's bottom; six one-row lines at 0.5, 2.5, 4.5, 10.5, 16.5
\* and 24.5 together with a 12-row band and a thin band that is not filled.
BarInputs(height) ==
    LET b100 == Band(height, 200, 2)
        b200 == Band(height, 400, 2)
        b201 == Band(height, 402, 2)
        b300 == Band(height, 600, 2)
        thin == Band(height, 1, 1) \cup Band(height, 5, 1) \cup Band(height, 9, 1)
                  \cup Band(height, 21, 1) \cup Band(height, 33, 1)
                  \cup Band(height, 49, 1)
        tall == Band(height, 500, 12)
        dim  == Band(height, 300, 2)
        All(rows) == [rows |-> rows, filled |-> rows]
    IN  { All({}), All(b100 \cup b300), All(b100 \cup b200 \cup b300), All(b201),
          [rows |-> thin \cup tall \cup dim, filled |-> thin \cup tall] }

NoLaneRows == [lane \in 0 .. (Lanes - 1) |-> {}]

\* is_note_row masks of the lanes: a 3-row note at 99.5 (lane 0) with a
\* 4-row note at 100 (lane 3); a note at 40.5 (lane 1) with, in lane 8, two
\* runs one row apart that merge into a note at 155.5 and a 2-row speck.
NoteInputs(height) ==
    LET nA == Band(height, 199, 3)
        nB == Band(height, 200, 4)
        nC == Band(height, 317, 3) \cup Band(height, 307, 5) \cup Band(height, 282, 2)
        nD == Band(height, 81, 3)
    IN  { NoLaneRows,
          [NoLaneRows EXCEPT ![0] = nA, ![3] = nB],
          [NoLaneRows EXCEPT ![1] = nD, ![8] = nC] }

ChunkInput(height, b, n) ==
    [height |-> height, bar_rows |-> b.rows, filled |-> b.filled, lane_rows |-> n]

\* What decoding a readable chunk file can yield: a 400-row chunk with any
\* of the masks above, or a 350-row chunk with bar lines only (at 100, 300
\* and 348) or with notes only (at 99.5, 3, 348 and 2.5 in lanes 0 to 3).
ChunkInputs ==
    { ChunkInput(400, b, n) : b \in BarInputs(400), n \in NoteInputs(400) }
      \cup { ChunkInput(350, [rows |-> r, filled |-> r], NoLaneRows) :
                r \in {Band(350, 200, 2) \cup Band(350, 600, 2) \cup Band(350, 696, 2)} }
      \cup { ChunkInput(350, [rows |-> {}, filled |-> {}],
                        [NoLaneRows EXCEPT ![0] = Band(350, 199, 3), ![1] = Band(350, 6, 4),
                                           ![2] = Band(350, 696, 4), ![3] = Band(350, 5, 3)]) }

\* ------------------------------------------------ segment extraction
Min(S) == CHOOSE x \in S : \A y \in S : x <= y

RECURSIVE SetToSeq(_)
SetToSeq(S) == IF S = {} THEN <<>> ELSE LET m == Min(S) IN <<m>> \o SetToSeq(S \ {m})

\* np.where(diff == 1) and np.where(diff == -1) on the mask padded with False.
Starts(mask) == SetToSeq({ r \in mask : (r - 1) \notin mask })
Ends(mask) == SetToSeq({ r + 1 : r \in { q \in mask : (q + 1) \notin mask } })

\* zip(starts, ends): the runs [start, end) of the mask, top row first.
Segments(mask) ==
    LET starts == Starts(mask)
        ends == Ends(mask)
    IN  [i \in 1 .. Len(starts) |-> <<starts[i], ends[i]>>]

RECURSIVE MergeFrom(_, _, _, _)
MergeFrom(segs, i, curr_start, curr_end) ==
    IF i > Len(segs) THEN << <<curr_start, curr_end>> >>
    ELSE IF segs[i][1] - curr_end < MergeGap
         THEN MergeFrom(segs, i + 1, curr_start, segs[i][2])
         ELSE << <<curr_start, curr_end>> >>
                \o MergeFrom(segs, i + 1, segs[i][1], segs[i][2])

\* merged_segments: runs closer than the merge gap become one.
MergeSegments(segs) ==
    IF Len(segs) > 0 THEN MergeFrom(segs, 2, segs[1][1], segs[1][2]) ELSE <<>>

\* ------------------------------------------------------- detections
\* center_y = start + h / 2
CenterY(seg) == Rat(2 * seg[1] + (seg[2] - seg[1]), 2)

\* global_y = current_base_y + (height - center_y)
GlobalY(base, height, center_y) == RAdd(base, RSub(FromInt(height), center_y))

\* A bar segment is thin and filled across the whole width.
IsBarSegment(seg, filled) == (seg[2] - seg[1]) < BarMaxHeight /\ seg[1] \in filled

MapBarY(segs, base, height) ==
    [i \in 1 .. Len(segs) |-> GlobalY(base, height, CenterY(segs[i]))]

\* Pass 1: the global Y of the bar lines of one chunk, in detection order.
BarLinesOfChunk(in, base) ==
    LET Keep(seg) == IsBarSegment(seg, in.filled)
    IN  MapBarY(SelectSeq(Segments(in.bar_rows), Keep), base, in.height)

\* h = end - start of the segments that Pass 1 takes as bar lines, in detection order.
BarHeightsOfChunk(in) ==
    LET Keep(seg) == IsBarSegment(seg, in.filled)
        segs == SelectSeq(Segments(in.bar_rows), Keep)
    IN  [i \in 1 .. Len(segs) |-> segs[i][2] - segs[i][1]]

\* A slip: only the bar line detected last is compared.
NearLastBarLine(bars, gy) ==
    Len(bars) > 0 /\ RLt(RAbs(RSub(bars[Len(bars)], gy)), FromInt(BarTolerance))

\* abs(bar_y - global_y) < 5 for some bar line detected so far.
NearBarLine(bars, gy) ==
    \E i \in 1 .. Len(bars) : RLt(RAbs(RSub(bars[i], gy)), FromInt(BarTolerance))

HasTimeFields(md) ==
    "speed" \in DOMAIN md /\ "fps" \in DOMAIN md /\ "start_time" \in DOMAIN md

\* start_time + (global_y / speed) / fps, or 0.0 without the metadata.
TimeOf(md, gy) ==
    IF HasTimeFields(md)
    THEN RAdd(md["start_time"], RDiv(RDiv(gy, md["speed"]), md["fps"]))
    ELSE Zero

MakeNote(chunk_idx, in, base, lane, seg, md) ==
    LET gy == GlobalY(base, in.height, CenterY(seg))
    IN  [chunk_index |-> chunk_idx, chunk_height |-> in.height, chunk_base_y |-> base,
         lane |-> lane, y |-> CenterY(seg), h |-> FromInt(seg[2] - seg[1]),
         global_y |-> gy, time |-> TimeOf(md, gy), type |-> "hit"]

\* A slip: tiny segments are not filtered out.
IsNoteSegmentAnyHeight(seg, in, base, bars) ==
    ~NearBarLine(bars, GlobalY(base, in.height, CenterY(seg)))

\* A merged segment becomes a note unless it is tiny or sits on a bar line.
IsNoteSegment(seg, in, base, bars) ==
    /\ ~((seg[2] - seg[1]) < MinHeight)
    /\ ~NearBarLine(bars, GlobalY(base, in.height, CenterY(seg)))

NotesOfLane(chunk_idx, in, base, lane, bars, md) ==
    LET Keep(seg) == IsNoteSegment(seg, in, base, bars)
        segs == SelectSeq(MergeSegments(Segments(in.lane_rows[lane])), Keep)
    IN  [i \in 1 .. Len(segs) |-> MakeNote(chunk_idx, in, base, lane, segs[i], md)]

RECURSIVE NotesFromLane(_, _, _, _, _, _)
NotesFromLane(chunk_idx, in, base, lane, bars, md) ==
    IF lane >= Lanes THEN <<>>
    ELSE NotesOfLane(chunk_idx, in, base, lane, bars, md)
            \o NotesFromLane(chunk_idx, in, base, lane + 1, bars, md)

\* Pass 2: the notes of one chunk, lane by lane.
NotesOfChunk(chunk_idx, in, base, bars, md) ==
    NotesFromLane(chunk_idx, in, base, 0, bars, md)

\* ------------------------------------------------ bar-line estimator
RECURSIVE InsertSorted(_, _)
InsertSorted(seq, x) ==
    IF seq = <<>> THEN <<x>>
    ELSE IF RLt(x, seq[1]) THEN <<x>> \o seq
    ELSE <<seq[1]>> \o InsertSorted(Tail(seq), x)

RECURSIVE SortFrom(_, _, _)
SortFrom(seq, i, acc) ==
    IF i > Len(seq) THEN acc ELSE SortFrom(seq, i + 1, InsertSorted(acc, seq[i]))

\* list.sort(): ascending.
Sort(seq) == SortFrom(seq, 1, <<>>)

\* np.diff
Diff(seq) == [i \in 1 .. (Len(seq) - 1) |-> RSub(seq[i + 1], seq[i])]

\* np.median of a non-empty list.
Median(seq) ==
    LET s == Sort(seq)
        n == Len(s)
    IN  IF n % 2 = 1 THEN s[(n + 1) \div 2]
        ELSE RDiv(RAdd(s[n \div 2], s[(n \div 2) + 1]), FromInt(2))

RECURSIVE SumFrom(_, _)
SumFrom(seq, i) == IF i > Len(seq) THEN Zero ELSE RAdd(seq[i], SumFrom(seq, i + 1))

\* np.mean of a non-empty list.
Mean(seq) == RDiv(SumFrom(seq, 1), FromInt(Len(seq)))

\* A line is kept when it is farther than half the raw median from the last kept one.
KeepLine(line, last_kept, initial_median) ==
    RLt(RMul(Rat(1, 2), initial_median), RSub(line, last_kept))

\* A slip: a line is compared with the previous raw line, not the last kept one.
RECURSIVE FilterFromPreviousRaw(_, _, _, _)
FilterFromPreviousRaw(lines, i, initial_median, kept) ==
    IF i > Len(lines) THEN kept
    ELSE IF KeepLine(lines[i], lines[i - 1], initial_median)
         THEN FilterFromPreviousRaw(lines, i + 1, initial_median, Append(kept, lines[i]))
         ELSE FilterFromPreviousRaw(lines, i + 1, initial_median, kept)

RECURSIVE FilterFrom(_, _, _, _)
FilterFrom(lines, i, initial_median, kept) ==
    IF i > Len(lines) THEN kept
    ELSE IF KeepLine(lines[i], kept[Len(kept)], initial_median)
         THEN FilterFrom(lines, i + 1, initial_median, Append(kept, lines[i]))
         ELSE FilterFrom(lines, i + 1, initial_median, kept)

\* filtered_lines of the sorted raw detections (at least two).
FilteredLines(lines) == FilterFrom(lines, 2, Median(Diff(lines)), <<lines[1]>>)

\* The diffs within 20% of their median.
ValidDiffs(diffs) ==
    LET median_diff == Median(diffs)
        Valid(d) == /\ RLt(RMul(Rat(4, 5), median_diff), d)
                    /\ RLt(d, RMul(Rat(6, 5), median_diff))
    IN  SelectSeq(diffs, Valid)

\* A slip: a missing fps falls back to 30 frames per second.
ComputeBpmDefaultFps(md, avg) ==
    IF "speed" \in DOMAIN md
    THEN LET fps == IF "fps" \in DOMAIN md THEN md["fps"] ELSE FromInt(30)
             frames_per_line == RDiv(avg, md["speed"])
             seconds_per_line == RDiv(frames_per_line, fps)
             beats_per_line == BeatsPerBar * BarsPerLine
         IN  IF RLt(Zero, seconds_per_line)
             THEN RMul(RDiv(FromInt(60), seconds_per_line), FromInt(beats_per_line))
             ELSE Zero
    ELSE Zero

\* bpm from the line spacing, when speed and fps are known.
ComputeBpm(md, avg) ==
    IF "speed" \in DOMAIN md /\ "fps" \in DOMAIN md
    THEN LET frames_per_line == RDiv(avg, md["speed"])
             seconds_per_line == RDiv(frames_per_line, md["fps"])
             beats_per_line == BeatsPerBar * BarsPerLine
         IN  IF RLt(Zero, seconds_per_line)
             THEN RMul(RDiv(FromInt(60), seconds_per_line), FromInt(beats_per_line))
             ELSE Zero
    ELSE Zero

\* ------------------------------------------------------ grid builder
\* A slip: range(1, num_segments - 1) leaves out the last filled-in line.
GapLinesOneShort(prev_line, curr_line, avg) ==
    LET dist == RSub(curr_line, prev_line)
        num_segments == Round(RDiv(dist, avg))
        step == RDiv(dist, FromInt(num_segments))
    IN  IF num_segments <= 1 THEN <<curr_line>>
        ELSE [k \in 1 .. (num_segments - 2) |-> RAdd(prev_line, RMul(FromInt(k), step))]
                \o <<curr_line>>

\* A slip: range(1, num_segments + 1) appends curr_line twice.
GapLinesOneMore(prev_line, curr_line, avg) ==
    LET dist == RSub(curr_line, prev_line)
        num_segments == Round(RDiv(dist, avg))
        step == RDiv(dist, FromInt(num_segments))
    IN  IF num_segments <= 1 THEN <<curr_line>>
        ELSE [k \in 1 .. num_segments |-> RAdd(prev_line, RMul(FromInt(k), step))]
                \o <<curr_line>>

\* A slip: the filled-in lines are avg apart instead of dist / num_segments.
GapLinesAvgStep(prev_line, curr_line, avg) ==
    LET dist == RSub(curr_line, prev_line)
        num_segments == Round(RDiv(dist, avg))
    IN  IF num_segments <= 1 THEN <<curr_line>>
        ELSE [k \in 1 .. (num_segments - 1) |-> RAdd(prev_line, RMul(FromInt(k), avg))]
                \o <<curr_line>>

\* The lines appended for the gap that ends at curr_line.
GapLines(prev_line, curr_line, avg) ==
    LET dist == RSub(curr_line, prev_line)
        num_segments == Round(RDiv(dist, avg))
        step == RDiv(dist, FromInt(num_segments))
    IN  IF num_segments <= 1 THEN <<curr_line>>
        ELSE [k \in 1 .. (num_segments - 1) |-> RAdd(prev_line, RMul(FromInt(k), step))]
                \o <<curr_line>>

RECURSIVE InterpolateFrom(_, _, _)
InterpolateFrom(filtered, i, avg) ==
    IF i > Len(filtered) THEN <<>>
    ELSE GapLines(filtered[i - 1], filtered[i], avg) \o InterpolateFrom(filtered, i + 1, avg)

\* The filtered lines with evenly spaced lines filled into the wide gaps.
Interpolate(filtered, avg) == <<filtered[1]>> \o InterpolateFrom(filtered, 2, avg)

RECURSIVE MinY(_, _, _)
MinY(notes, i, m) ==
    IF i > Len(notes) THEN m
    ELSE MinY(notes, i + 1, IF RLt(notes[i].global_y, m) THEN notes[i].global_y ELSE m)

RECURSIVE MaxY(_, _, _)
MaxY(notes, i, m) ==
    IF i > Len(notes) THEN m
    ELSE MaxY(notes, i + 1, IF RLt(m, notes[i].global_y) THEN notes[i].global_y ELSE m)

MinNoteY(notes) == IF Len(notes) > 0 THEN MinY(notes, 2, notes[1].global_y) ELSE Zero
MaxNoteY(notes) == IF Len(notes) > 0 THEN MaxY(notes, 2, notes[1].global_y) ELSE Zero

RECURSIVE ExtendBackwards(_, _, _)
ExtendBackwards(grid, min_note_y, avg) ==
    IF RLt(min_note_y, grid[1])
    THEN ExtendBackwards(<<RSub(grid[1], avg)>> \o grid, min_note_y, avg)
    ELSE grid

\* A slip: the forward loop stops one step early.
RECURSIVE ExtendForwardsShort(_, _, _)
ExtendForwardsShort(grid, max_note_y, avg) ==
    IF RLt(RAdd(grid[Len(grid)], avg), max_note_y)
    THEN ExtendForwardsShort(Append(grid, RAdd(grid[Len(grid)], avg)), max_note_y, avg)
    ELSE grid

RECURSIVE ExtendForwards(_, _, _)
ExtendForwards(grid, max_note_y, avg) ==
    IF RLt(grid[Len(grid)], max_note_y)
    THEN ExtendForwards(Append(grid, RAdd(grid[Len(grid)], avg)), max_note_y, avg)
    ELSE grid

\* The grid extended by avg-sized steps until it covers all notes.
Extrapolate(grid, notes, avg) ==
    ExtendForwards(ExtendBackwards(grid, MinNoteY(notes), avg), MaxNoteY(notes), avg)

\* ---------------------------------------------------------- quantizer
RECURSIVE BisectFrom(_, _, _, _)
BisectFrom(a, x, lo, hi) ==
    IF lo < hi
    THEN LET mid == (lo + hi) \div 2
         IN  IF RLt(x, a[mid + 1]) THEN BisectFrom(a, x, lo, mid)
             ELSE BisectFrom(a, x, mid + 1, hi)
    ELSE lo

\* bisect.bisect_right(a, x)
BisectRight(a, x) == BisectFrom(a, x, 0, Len(a))

\* The 0-based index of the grid segment a global Y is looked up in.
SegmentIndex(grid, gy) == BisectRight(grid, gy) - 1

InGrid(grid, idx) == 0 <= idx /\ idx < Len(grid) - 1

\* A slip: the snapped fraction is scaled by the height of the first grid
\* segment instead of the height of the note's own segment.
SnapByFirstSegment(grid, idx, gy) ==
    LET grid_start == grid[idx + 1]
        grid_end == grid[idx + 2]
        segment_height == RSub(grid_end, grid_start)
        fraction == RDiv(RSub(gy, grid_start), segment_height)
        snapped_fraction ==
            Rat(Round(RMul(fraction, FromInt(Subdivisions))), Subdivisions)
    IN  RAdd(grid_start, RMul(snapped_fraction, RSub(grid[2], grid[1])))

\* The global Y snapped to the nearest 1/192 of its grid segment.
Snap(grid, idx, gy) ==
    LET grid_start == grid[idx + 1]
        grid_end == grid[idx + 2]
        segment_height == RSub(grid_end, grid_start)
        fraction == RDiv(RSub(gy, grid_start), segment_height)
        snapped_fraction ==
            Rat(Round(RMul(fraction, FromInt(Subdivisions))), Subdivisions)
    IN  RAdd(grid_start, RMul(snapped_fraction, segment_height))

QuantizeNote(note, grid, md) ==
    LET idx == SegmentIndex(grid, note.global_y)
        new_global_y == Snap(grid, idx, note.global_y)
    IN  IF InGrid(grid, idx)
        THEN [note EXCEPT
                !.global_y = new_global_y,
                !.y = RSub(FromInt(note.chunk_height), RSub(new_global_y, note.chunk_base_y)),
                !.time = IF HasTimeFields(md)
                         THEN RAdd(md["start_time"],
                                   RDiv(RDiv(new_global_y, md["speed"]), md["fps"]))
                         ELSE note.time]
        ELSE note

\* The quantize loop over all notes.
Quantize(notes, grid, md) == [i \in 1 .. Len(notes) |-> QuantizeNote(notes[i], grid, md)]

\* ------------------------------------------------------- the program
VARIABLES
    pc,                    \* "chunks": in the chunk loop; "backwards", "forwards": in
                           \* an extrapolation loop; "quantize": the grid is
                           \* finished; "done": notes.json written
    metadata,              \* the metadata record (a function of the fields present)
    chunk_log,             \* per chunk file handled: the height read, 0 if unreadable
    current_base_y,        \* accumulated height of the processed chunks
    detected_bar_lines_y,  \* global Y of the bar lines (sorted in place by the estimator)
    detected_notes,        \* the notes (rewritten in place by the quantizer)
    bar_log,               \* history: each bar line as detected, with its chunk
    note_log,              \* history: each note as appended at detection
    filtered_lines,        \* the de-duplicated bar lines (empty if not computed)
    avg_diff_px,           \* the estimated spacing (0 if not computed)
    final_grid,            \* the grid (empty if none was built)
    bpm,                   \* the estimated tempo
    min_note_y,            \* the lowest and the highest note, taken once before
    max_note_y,            \* the extrapolation loops
    output_data            \* what is written to notes.json

vars == <<pc, metadata, chunk_log, current_base_y, detected_bar_lines_y, detected_notes,
          bar_log, note_log, filtered_lines, avg_diff_px, final_grid, bpm,
          min_note_y, max_note_y, output_data>>

\* A slip: a tempo is assumed when none is estimated.
DefaultBpmAssumed == FromInt(120)

\* bpm = 0 unless it is estimated.
DefaultBpm == Zero

NoOutput == [notes |-> <<>>, bpm |-> Zero, bar_lines |-> <<>>, written |-> FALSE]

Init ==
    /\ pc = "chunks"
    /\ metadata \in MetadataChoices
    /\ chunk_log = <<>>
    /\ current_base_y = Zero
    /\ detected_bar_lines_y = <<>>
    /\ detected_notes = <<>>
    /\ bar_log = <<>>
    /\ note_log = <<>>
    /\ filtered_lines = <<>>
    /\ avg_diff_px = Zero
    /\ final_grid = <<>>
    /\ bpm = DefaultBpm
    /\ min_note_y = Zero
    /\ max_note_y = Zero
    /\ output_data = NoOutput

\* The index parsed from the name of the next chunk file (chunk_0.jpg, chunk_1.jpg, ...).
NextChunkIndex == Len(chunk_log)

\* A slip: the processed chunk's height is not added.
NextBaseYNotAccumulated(base, height) == base

\* The base offset after a chunk of the given height has been processed.
NextBaseY(base, height) == RAdd(base, FromInt(height))

\* A slip: the height is added before the unreadable chunk is skipped.
BaseYAfterSkipAddsHeight(base) == RAdd(base, FromInt(400))

\* The base offset after a chunk that could not be read.
BaseYAfterSkip(base) == base

\* One iteration of the chunk loop on a chunk that decodes.
ProcessChunk ==
    /\ pc = "chunks"
    /\ Len(chunk_log) < MaxChunks
    /\ \E in \in ChunkInputs :
          LET chunk_idx == NextChunkIndex
              new_bars == BarLinesOfChunk(in, current_base_y)
              new_hs == BarHeightsOfChunk(in)
              bars == detected_bar_lines_y \o new_bars
              new_notes == NotesOfChunk(chunk_idx, in, current_base_y, bars, metadata)
          IN  /\ detected_bar_lines_y' = bars
              /\ detected_notes' = detected_notes \o new_notes
              /\ bar_log' = bar_log \o [i \in 1 .. Len(new_bars) |->
                                [chunk_index |-> chunk_idx, chunk_height |-> in.height,
                                 chunk_base_y |-> current_base_y, global_y |-> new_bars[i],
                                 h |-> new_hs[i]]]
              /\ note_log' = note_log \o new_notes
              /\ current_base_y' = NextBaseY(current_base_y, in.height)
              /\ chunk_log' = Append(chunk_log, in.height)
    /\ UNCHANGED <<pc, metadata, filtered_lines, avg_diff_px, final_grid, bpm,
                   min_note_y, max_note_y, output_data>>

\* One iteration of the chunk loop on a chunk that cannot be read or decoded.
SkipChunk ==
    /\ pc = "chunks"
    /\ Len(chunk_log) < MaxChunks
    /\ chunk_log' = Append(chunk_log, 0)
    /\ current_base_y' = BaseYAfterSkip(current_base_y)
    /\ UNCHANGED <<pc, metadata, detected_bar_lines_y, detected_notes, bar_log, note_log,
                   filtered_lines, avg_diff_px, final_grid, bpm, min_note_y, max_note_y,
                   output_data>>

\* len(detected_bar_lines_y) > 1
EnoughBarLines(bars) == Len(bars) > 1

\* The values computed after the chunk loop, up to the quantized notes.
Estimation(bars, notes, md) ==
    LET enough == EnoughBarLines(bars)
        sorted == IF enough THEN Sort(bars) ELSE bars
        filtered == IF enough THEN FilteredLines(sorted) ELSE <<>>
        valid_diffs == IF Len(filtered) > 1 THEN ValidDiffs(Diff(filtered)) ELSE <<>>
        built == Len(valid_diffs) > 0
        avg == IF built THEN Mean(valid_diffs) ELSE Zero
        grid == IF built THEN Extrapolate(Interpolate(filtered, avg), notes, avg) ELSE <<>>
    IN  [sorted |-> sorted, filtered |-> filtered, avg |-> avg, grid |-> grid,
         bpm |-> IF built THEN ComputeBpm(md, avg) ELSE DefaultBpm,
         notes |-> IF built THEN Quantize(notes, grid, md) ELSE notes]

\* Everything after the chunk loop: estimate, build the grid, quantize, save.
Finish ==
    /\ pc = "chunks"
    /\ \E e \in {Estimation(detected_bar_lines_y, detected_notes, metadata)} :
           /\ detected_bar_lines_y' = e.sorted
           /\ filtered_lines' = e.filtered
           /\ avg_diff_px' = e.avg
           /\ final_grid' = e.grid
           /\ bpm' = e.bpm
           /\ min_note_y' = IF e.grid # <<>> THEN MinNoteY(detected_notes) ELSE min_note_y
           /\ max_note_y' = IF e.grid # <<>> THEN MaxNoteY(detected_notes) ELSE max_note_y
           /\ detected_notes' = e.notes
           /\ output_data' = [notes |-> e.notes, bpm |-> Round2(e.bpm),
                              bar_lines |-> e.grid, written |-> TRUE]
    /\ pc' = "done"
    /\ UNCHANGED <<metadata, chunk_log, current_base_y, bar_log, note_log>>

Next == ProcessChunk \/ SkipChunk \/ Finish

Spec == Init /\ [][Next]_vars

\* ------------------------------------- the extrapolation loops, step by step
\* valid_diffs of the raw detections; empty when the estimate is not reached.
ValidDiffsOf(bars) ==
    LET filtered == IF EnoughBarLines(bars) THEN FilteredLines(Sort(bars)) ELSE <<>>
    IN  IF Len(filtered) > 1 THEN ValidDiffs(Diff(filtered)) ELSE <<>>

\* The exit without a grid: fewer than two lines, or no valid spacing.
FinishWithoutGrid ==
    /\ Len(ValidDiffsOf(detected_bar_lines_y)) = 0
    /\ Finish

\* The grid-building branch up to the interpolated grid; the loops follow.
BuildGrid ==
    /\ pc = "chunks"
    /\ Len(ValidDiffsOf(detected_bar_lines_y)) > 0
    /\ LET sorted == Sort(detected_bar_lines_y)
           filtered == FilteredLines(sorted)
           avg == Mean(ValidDiffsOf(detected_bar_lines_y))
       IN  /\ detected_bar_lines_y' = sorted
           /\ filtered_lines' = filtered
           /\ avg_diff_px' = avg
           /\ bpm' = ComputeBpm(metadata, avg)
           /\ final_grid' = Interpolate(filtered, avg)
    /\ min_note_y' = MinNoteY(detected_notes)
    /\ max_note_y' = MaxNoteY(detected_notes)
    /\ pc' = "backwards"
    /\ UNCHANGED <<metadata, chunk_log, current_base_y, detected_notes, bar_log, note_log,
                   output_data>>

\* A slip: the new first line is put above the old one.
LineBeforeAdded(grid, avg) == RAdd(grid[1], avg)

\* final_grid[0] - avg_diff_px
LineBefore(grid, avg) == RSub(grid[1], avg)

\* final_grid[-1] + avg_diff_px
LineAfter(grid, avg) == RAdd(grid[Len(grid)], avg)

\* while final_grid[0] > min_note_y: one iteration.
BackwardsStep ==
    /\ pc = "backwards"
    /\ RLt(min_note_y, final_grid[1])
    /\ final_grid' = <<LineBefore(final_grid, avg_diff_px)>> \o final_grid
    /\ UNCHANGED <<pc, metadata, chunk_log, current_base_y, detected_bar_lines_y,
                   detected_notes, bar_log, note_log, filtered_lines, avg_diff_px, bpm,
                   min_note_y, max_note_y, output_data>>

\* The backward loop's condition is false: on to the forward loop.
BackwardsExit ==
    /\ pc = "backwards"
    /\ ~RLt(min_note_y, final_grid[1])
    /\ pc' = "forwards"
    /\ UNCHANGED <<metadata, chunk_log, current_base_y, detected_bar_lines_y, detected_notes,
                   bar_log, note_log, filtered_lines, avg_diff_px, final_grid, bpm,
                   min_note_y, max_note_y, output_data>>

\* while final_grid[-1] < max_note_y: one iteration.
ForwardsStep ==
    /\ pc = "forwards"
    /\ RLt(final_grid[Len(final_grid)], max_note_y)
    /\ final_grid' = Append(final_grid, LineAfter(final_grid, avg_diff_px))
    /\ UNCHANGED <<pc, metadata, chunk_log, current_base_y, detected_bar_lines_y,
                   detected_notes, bar_log, note_log, filtered_lines, avg_diff_px, bpm,
                   min_note_y, max_note_y, output_data>>

\* The forward loop's condition is false: on to the quantize loop.
ForwardsExit ==
    /\ pc = "forwards"
    /\ ~RLt(final_grid[Len(final_grid)], max_note_y)
    /\ pc' = "quantize"
    /\ UNCHANGED <<metadata, chunk_log, current_base_y, detected_bar_lines_y, detected_notes,
                   bar_log, note_log, filtered_lines, avg_diff_px, final_grid, bpm,
                   min_note_y, max_note_y, output_data>>

\* The quantize loop over the finished grid, and the save.
QuantizeAndSave ==
    /\ pc = "quantize"
    /\ \E quantized \in {Quantize(detected_notes, final_grid, metadata)} :
           /\ detected_notes' = quantized
           /\ output_data' = [notes |-> quantized, bpm |-> Round2(bpm),
                              bar_lines |-> final_grid, written |-> TRUE]
    /\ pc' = "done"
    /\ UNCHANGED <<metadata, chunk_log, current_base_y, detected_bar_lines_y, bar_log,
                   note_log, filtered_lines, avg_diff_px, final_grid, bpm, min_note_y,
                   max_note_y>>

NextStepwise ==
    \/ ProcessChunk
    \/ SkipChunk
    \/ FinishWithoutGrid
    \/ BuildGrid
    \/ BackwardsStep
    \/ BackwardsExit
    \/ ForwardsStep
    \/ ForwardsExit
    \/ QuantizeAndSave

\* A step of the extrapolation loops: an iteration or the exit of either loop.
ExtrapolationStep == BackwardsStep \/ BackwardsExit \/ ForwardsStep \/ ForwardsExit

\* The program runs on: inside the loops, a step that can be taken is taken.
SpecStepwise == Init /\ [][NextStepwise]_vars /\ WF_vars(ExtrapolationStep)

\* ------------------------------------------------------------ claims
Range(seq) == { seq[i] : i \in DOMAIN seq }

\* Every detection with the chunk it came from, as recorded when it was made.
Detections ==
    { [chunk_index |-> b.chunk_index, chunk_height |-> b.chunk_height,
       chunk_base_y |-> b.chunk_base_y, global_y |-> b.global_y] : b \in Range(bar_log) } \cup
    { [chunk_index |-> n.chunk_index, chunk_height |-> n.chunk_height,
       chunk_base_y |-> n.chunk_base_y, global_y |-> n.global_y] : n \in Range(note_log) }

\* C1: the raw global Y of every detection of an earlier chunk is <= that of
\* every detection of a later chunk: each chunk's detections lie in
\* [base_offset, base_offset + chunk_height] and these ranges do not overlap.
C1_GlobalYOrderedAcrossChunks ==
    \A a \in Detections :
       /\ RLe(a.chunk_base_y, a.global_y)
       /\ RLe(a.global_y, RAdd(a.chunk_base_y, FromInt(a.chunk_height)))
       /\ \A b \in Detections :
             a.chunk_index < b.chunk_index =>
                /\ RLe(RAdd(a.chunk_base_y, FromInt(a.chunk_height)), b.chunk_base_y)
                /\ RLe(a.global_y, b.global_y)

\* Two processed chunks, the earlier with a bar line and a note, the later too.
C1_Witness ==
    \E a, b \in Range(bar_log) : \E m, n \in Range(note_log) :
       /\ a.chunk_index < b.chunk_index
       /\ m.chunk_index = a.chunk_index
       /\ n.chunk_index = b.chunk_index

\* C2: quantization is idempotent: running the quantizer again on the
\* snapped notes with the same grid changes no global_y, y or time.
C2_QuantizeIdempotent ==
    (pc = "done" /\ final_grid # <<>>) =>
        Quantize(detected_notes, final_grid, metadata) = detected_notes

\* A note moved up onto the end line of its segment, which is the last grid
\* line (so the second run leaves it unsnapped), and a note moved to a
\* subdivision inside its segment.
C2_Witness ==
    /\ pc = "done"
    /\ final_grid # <<>>
    /\ \E i \in DOMAIN detected_notes :
          /\ detected_notes[i].global_y = final_grid[Len(final_grid)]
          /\ RLt(note_log[i].global_y, detected_notes[i].global_y)
          /\ ~InGrid(final_grid, SegmentIndex(final_grid, detected_notes[i].global_y))
    /\ \E j \in DOMAIN detected_notes :
          /\ detected_notes[j].global_y # note_log[j].global_y
          /\ detected_notes[j].global_y \notin Range(final_grid)
          /\ detected_notes[j].y # note_log[j].y
          /\ detected_notes[j].time # note_log[j].time

GridBuilt == pc = "done" /\ final_grid # <<>>

\* The spacings of adjacent grid lines.
GridSpacings == Diff(final_grid)

\* C3 as claimed: with a grid and at least one note, the grid spans the
\* notes and the lookup of every detected note yields an index in
\* [0, len(grid) - 2], so that no note is left unsnapped.
C3_EveryNoteInsideASegment ==
    (GridBuilt /\ note_log # <<>>) =>
        /\ RLe(final_grid[1], MinNoteY(note_log))
        /\ RLe(MaxNoteY(note_log), final_grid[Len(final_grid)])
        /\ \A n \in Range(note_log) :
              InGrid(final_grid, SegmentIndex(final_grid, n.global_y))

\* C3 amended: the grid spans the notes, and the lookup of every detected
\* note yields an index in [0, len(grid) - 1]; the index is len(grid) - 1,
\* and the note is left unsnapped, exactly when the note lies on the last
\* grid line.
C3_EveryNoteInsideTheGridSpan ==
    (GridBuilt /\ note_log # <<>>) =>
        /\ RLe(final_grid[1], MinNoteY(note_log))
        /\ RLe(MaxNoteY(note_log), final_grid[Len(final_grid)])
        /\ \A i \in DOMAIN note_log :
              LET idx == SegmentIndex(final_grid, note_log[i].global_y)
              IN  /\ 0 <= idx /\ idx <= Len(final_grid) - 1
                  /\ (idx = Len(final_grid) - 1) <=>
                        note_log[i].global_y = final_grid[Len(final_grid)]
                  /\ ~InGrid(final_grid, idx) => detected_notes[i] = note_log[i]

\* The grid was extended at both ends; one note lies inside a segment and
\* another exactly on the last grid line.
C3_Witness ==
    /\ GridBuilt
    /\ RLt(final_grid[1], filtered_lines[1])
    /\ RLt(filtered_lines[Len(filtered_lines)], final_grid[Len(final_grid)])
    /\ \E n \in Range(note_log) : n.global_y = final_grid[Len(final_grid)]
    /\ \E n \in Range(note_log) : InGrid(final_grid, SegmentIndex(final_grid, n.global_y))

\* C4 as claimed: every adjacent pair of grid lines is spaced within 20% of
\* the estimated spacing.
C4_SpacingWithinTolerance ==
    GridBuilt =>
        \A i \in DOMAIN GridSpacings :
           /\ RLe(RMul(Rat(4, 5), avg_diff_px), GridSpacings[i])
           /\ RLe(GridSpacings[i], RMul(Rat(6, 5), avg_diff_px))

\* C4 amended: every adjacent pair of grid lines is spaced by more than 0
\* and less than 1.5 times the estimated spacing, and a pair that is not a
\* pair of detected (filtered) lines is spaced within 25% of it.
C4_SpacingBelowOneAndAHalf ==
    GridBuilt =>
        \A i \in DOMAIN GridSpacings :
           /\ RLt(Zero, GridSpacings[i])
           /\ RLt(GridSpacings[i], RMul(Rat(3, 2), avg_diff_px))
           /\ (final_grid[i] \notin Range(filtered_lines)
                 \/ final_grid[i + 1] \notin Range(filtered_lines)) =>
                 /\ RLe(RMul(Rat(3, 4), avg_diff_px), GridSpacings[i])
                 /\ RLe(GridSpacings[i], RMul(Rat(5, 4), avg_diff_px))

\* A grid with filled-in lines, a pair of detected lines closer than 80% of
\* the estimated spacing and a pair wider than 120% of it.
C4_Witness ==
    /\ GridBuilt
    /\ Len(final_grid) > Len(filtered_lines)
    /\ \E i \in DOMAIN GridSpacings : RLt(GridSpacings[i], RMul(Rat(4, 5), avg_diff_px))
    /\ \E i \in DOMAIN GridSpacings : RLt(RMul(Rat(6, 5), avg_diff_px), GridSpacings[i])

\* C5: the final grid is strictly ascending.
C5_GridStrictlyAscending ==
    GridBuilt =>
        \A i \in 1 .. (Len(final_grid) - 1) : RLt(final_grid[i], final_grid[i + 1])

\* A grid made with a line dropped by de-duplication, lines filled into a
\* gap, and lines added before the first and after the last detected line.
C5_Witness ==
    /\ GridBuilt
    /\ Len(filtered_lines) < Len(detected_bar_lines_y)
    /\ RLt(final_grid[1], filtered_lines[1])
    /\ RLt(filtered_lines[Len(filtered_lines)], final_grid[Len(final_grid)])
    /\ \E g \in Range(final_grid) :
          /\ RLt(filtered_lines[1], g)
          /\ RLt(g, filtered_lines[Len(filtered_lines)])
          /\ g \notin Range(filtered_lines)

\* Half of the median of the raw adjacent spacings.
HalfRawMedian == RMul(Rat(1, 2), Median(Diff(detected_bar_lines_y)))

\* The kept line closest below a raw line.
LastKeptBefore(line) ==
    CHOOSE k \in Range(filtered_lines) :
        /\ RLt(k, line)
        /\ \A k2 \in Range(filtered_lines) : RLt(k2, line) => RLe(k2, k)

\* C6: de-duplication keeps the first sorted raw line and then exactly the
\* lines farther than half the raw median spacing from the last kept line,
\* in order; raw lines [100, 102, 250, 400] give [100, 250, 400].
C6_DeduplicationKeepsFarLines ==
    /\ FilteredLines(<<FromInt(100), FromInt(102), FromInt(250), FromInt(400)>>)
          = <<FromInt(100), FromInt(250), FromInt(400)>>
    /\ (pc = "done" /\ Len(detected_bar_lines_y) > 1) =>
          /\ filtered_lines[1] = detected_bar_lines_y[1]
          /\ Range(filtered_lines) \subseteq Range(detected_bar_lines_y)
          /\ \A i \in 1 .. (Len(filtered_lines) - 1) :
                RLt(filtered_lines[i], filtered_lines[i + 1])
          /\ \A i \in 2 .. Len(detected_bar_lines_y) :
                LET line == detected_bar_lines_y[i]
                IN  (line \in Range(filtered_lines)) <=>
                        RLt(HalfRawMedian, RSub(line, LastKeptBefore(line)))

\* A line was dropped, and a line was kept that is within the threshold of
\* the previous raw line but beyond it from the last kept line.
C6_Witness ==
    /\ pc = "done"
    /\ Len(detected_bar_lines_y) > 1
    /\ Len(filtered_lines) < Len(detected_bar_lines_y)
    /\ \E i \in 2 .. Len(detected_bar_lines_y) :
          /\ detected_bar_lines_y[i] \in Range(filtered_lines)
          /\ RLe(RSub(detected_bar_lines_y[i], detected_bar_lines_y[i - 1]), HalfRawMedian)

\* The grid lines strictly between two lines.
GridLinesBetween(a, b) == { g \in Range(final_grid) : RLt(a, g) /\ RLt(g, b) }

\* C7: between adjacent filtered lines with gap g and estimated spacing s
\* the grid holds exactly max(round(g / s) - 1, 0) further lines, spaced
\* g / round(g / s) apart, and both end lines; [0, 301] with spacing 100
\* gives [0, 100.33, 200.67, 301].
C7_InterpolationFillsGaps ==
    /\ Interpolate(<<FromInt(0), FromInt(301)>>, FromInt(100))
          = <<FromInt(0), Rat(301, 3), Rat(602, 3), FromInt(301)>>
    /\ GapLines(FromInt(33), FromInt(36), FromInt(11)) = <<FromInt(36)>>
    /\ GridBuilt =>
          \A i \in 1 .. (Len(filtered_lines) - 1) :
             LET a == filtered_lines[i]
                 b == filtered_lines[i + 1]
                 n == Round(RDiv(RSub(b, a), avg_diff_px))
             IN  /\ a \in Range(final_grid)
                 /\ b \in Range(final_grid)
                 /\ Cardinality(GridLinesBetween(a, b)) = (IF n > 1 THEN n - 1 ELSE 0)
                 /\ GridLinesBetween(a, b) =
                       { RAdd(a, RDiv(RMul(FromInt(k), RSub(b, a)), FromInt(n))) :
                            k \in 1 .. (n - 1) }

\* A gap that takes two lines which are not whole multiples of the spacing
\* away, beside a gap that takes none.
C7_Witness ==
    /\ GridBuilt
    /\ \E i \in 1 .. (Len(filtered_lines) - 1) :
          /\ Round(RDiv(RSub(filtered_lines[i + 1], filtered_lines[i]), avg_diff_px)) = 3
          /\ RAdd(filtered_lines[i], avg_diff_px) \notin Range(final_grid)
          /\ Cardinality(GridLinesBetween(filtered_lines[i], filtered_lines[i + 1])) = 2
    /\ \E i \in 1 .. (Len(filtered_lines) - 1) :
          GridLinesBetween(filtered_lines[i], filtered_lines[i + 1]) = {}

\* C8: with fewer than two raw bar-line detections the reported BPM is 0,
\* the persisted grid is empty and every note is written exactly as detected.
C8_TooFewBarLinesNoGrid ==
    (pc = "done" /\ Len(bar_log) < 2) =>
        /\ output_data.written
        /\ bpm = Zero
        /\ output_data.bpm = Zero
        /\ final_grid = <<>>
        /\ output_data.bar_lines = <<>>
        /\ detected_notes = note_log
        /\ output_data.notes = note_log

\* A finished run with one bar line and a note that has a time.
C8_Witness ==
    /\ pc = "done"
    /\ Len(bar_log) = 1
    /\ \E n \in Range(output_data.notes) : n.time # Zero

RECURSIVE SumHeights(_, _)
SumHeights(log, n) == IF n = 0 THEN 0 ELSE log[n] + SumHeights(log, n - 1)

\* The base offset is the total height of the chunks that were read, and
\* every detection belongs to a chunk that was read, at that chunk's offset.
OffsetsCountLoadedChunksOnly ==
    /\ current_base_y = FromInt(SumHeights(chunk_log, Len(chunk_log)))
    /\ \A d \in Detections :
          /\ chunk_log[d.chunk_index + 1] = d.chunk_height
          /\ d.chunk_height > 0
          /\ d.chunk_base_y = FromInt(SumHeights(chunk_log, d.chunk_index))

\* The step taken for an unreadable chunk.
SkipStep == chunk_log' = Append(chunk_log, 0)

\* C9: an unreadable chunk adds no bar line, no note and nothing to the base
\* offset, and the loop goes on; so offsets and detections are those of a
\* run without that chunk file.
C9_UnreadableChunkContributesNothing ==
    /\ []OffsetsCountLoadedChunksOnly
    /\ [][SkipStep =>
            /\ pc' = "chunks"
            /\ UNCHANGED <<current_base_y, detected_bar_lines_y, detected_notes,
                           bar_log, note_log>>]_vars

\* A chunk with detections was processed after an unreadable one.
C9_Witness ==
    \E d \in Detections :
        /\ d.chunk_index > 0
        /\ chunk_log[d.chunk_index] = 0
        /\ d.chunk_base_y = FromInt(SumHeights(chunk_log, d.chunk_index - 1))

AllTimesZero(notes) == \A n \in Range(notes) : n.time = Zero

\* C10 as claimed: if any of fps, speed and start_time is absent, every
\* note's time is 0.0 before and after quantization and the BPM is 0.
C10_MissingFieldZeroTimeAndBpm ==
    ~HasTimeFields(metadata) =>
        /\ AllTimesZero(note_log)
        /\ AllTimesZero(detected_notes)
        /\ pc = "done" => (AllTimesZero(output_data.notes) /\ output_data.bpm = Zero)

\* C10 amended: if any of the fields is absent, every note's time is 0.0
\* before and after quantization; the BPM is 0 if fps or speed is absent,
\* while without start_time alone it is still estimated from fps and speed.
C10_MissingFieldZeroTime ==
    ~HasTimeFields(metadata) =>
        /\ AllTimesZero(note_log)
        /\ AllTimesZero(detected_notes)
        /\ pc = "done" => AllTimesZero(output_data.notes)
        /\ (pc = "done" /\ ~({"fps", "speed"} \subseteq DOMAIN metadata)) =>
              (bpm = Zero /\ output_data.bpm = Zero)
        /\ (GridBuilt /\ {"fps", "speed"} \subseteq DOMAIN metadata) =>
              /\ bpm = RDiv(RMul(FromInt(60 * BeatsPerBar * BarsPerLine),
                                 RMul(metadata["speed"], metadata["fps"])), avg_diff_px)
              /\ RLt(Zero, bpm)
              /\ output_data.bpm = Round2(bpm)

\* Quantized notes written without the fps: the times stay 0.0, the BPM 0.
C10_Witness ==
    /\ GridBuilt
    /\ "fps" \notin DOMAIN metadata
    /\ \E i \in DOMAIN note_log : output_data.notes[i].global_y # note_log[i].global_y

\* C11: no note and no bar-line detection is ever produced from a segment
\* whose height in rows is below the minimum height (3 rows).
C11_NoDetectionBelowMinHeight ==
    /\ \A n \in Range(note_log) : RLe(FromInt(MinHeight), n.h)
    /\ \A b \in Range(bar_log) : b.h >= MinHeight

\* C11 amended: the minimum height is applied to the merged segments of the
\* note masks only, so every note has a height of at least 3 rows; a bar-line
\* segment is bounded above only (under 10 rows), and a bar line of 1 or 2
\* rows is detected.
C11_NoNoteBelowMinHeight ==
    /\ \A n \in Range(note_log) : RLe(FromInt(MinHeight), n.h)
    /\ \A b \in Range(bar_log) : 0 < b.h /\ b.h < BarMaxHeight

\* A chunk whose lane 8 holds a 2-row speck next to a merged 9-row note, and
\* a 1-row bar line: the note and the bar line are detected, the speck is not.
C11_Witness ==
    /\ \E n \in Range(note_log) : n.lane = 8 /\ n.h = FromInt(9)
    /\ \A n \in Range(note_log) : n.lane = 8 => n.h = FromInt(9)
    /\ \E b \in Range(bar_log) : b.h < MinHeight

\* The grid is in one of the extrapolation loops.
InExtrapolation == pc \in {"backwards", "forwards"}

\* An iteration of the backward loop puts a strictly lower line in front.
BackwardsDescends ==
    (pc = "backwards" /\ pc' = "backwards") =>
        /\ Len(final_grid') = Len(final_grid) + 1
        /\ RLt(final_grid'[1], final_grid[1])
        /\ RSub(final_grid[1], final_grid'[1]) = avg_diff_px

\* An iteration of the forward loop puts a strictly higher line at the end.
ForwardsAscends ==
    (pc = "forwards" /\ pc' = "forwards") =>
        /\ Len(final_grid') = Len(final_grid) + 1
        /\ RLt(final_grid[Len(final_grid)], final_grid'[Len(final_grid')])
        /\ RSub(final_grid'[Len(final_grid')], final_grid[Len(final_grid)]) = avg_diff_px

\* C12: grid extrapolation always terminates: whenever the grid-building
\* branch is reached the estimated spacing avg_diff_px is strictly positive,
\* every iteration of the backward loop lowers grid[0] by it and every
\* iteration of the forward loop raises grid[last] by it, and each loop is
\* left after finitely many iterations, with the grid the program writes.
C12_ExtrapolationTerminates ==
    /\ [](InExtrapolation => RLt(Zero, avg_diff_px))
    /\ [][BackwardsDescends /\ ForwardsAscends]_vars
    /\ [](pc \in {"quantize", "done"} =>
            final_grid = Estimation(detected_bar_lines_y, note_log, metadata).grid)
    /\ (pc = "backwards") ~> (pc = "forwards")
    /\ (pc = "forwards") ~> (pc = "quantize")

\* Both loops have run more than once and the notes are written.
C12_Witness ==
    /\ GridBuilt /\ output_data.written
    /\ RLt(RAdd(final_grid[1], avg_diff_px), filtered_lines[1])
    /\ RLt(RAdd(filtered_lines[Len(filtered_lines)], avg_diff_px),
           final_grid[Len(final_grid)])

\* The distance in pixels between a note and a bar line, raw global Y.
BarDistance(n, b) == RAbs(RSub(b.global_y, n.global_y))

\* A note, once appended, stays as it was appended.
NotesStayAsAppended ==
    /\ Len(note_log') >= Len(note_log)
    /\ \A i \in DOMAIN note_log : note_log'[i] = note_log[i]

\* C13: no note is emitted at a bar-line position: the raw global Y of every
\* note differs by at least 5 from the global Y of every bar line collected
\* from the note's own chunk or an earlier chunk (a segment strictly closer
\* than 5 px is dropped); bar lines of later chunks are not consulted, a
\* note stays as it was appended whatever is detected later.
C13_NoNoteAtBarLine ==
    /\ [](\A n \in Range(note_log) : \A b \in Range(bar_log) :
             b.chunk_index <= n.chunk_index => RLe(FromInt(5), BarDistance(n, b)))
    /\ [][NotesStayAsAppended]_vars

\* A 350-row chunk with a bar line at 348, then a 350-row chunk with notes
\* at 353 and 352.5: the note exactly 5 px from the bar line is emitted, the
\* one 4.5 px from it is dropped.
C13_Witness ==
    /\ chunk_log = <<350, 350>>
    /\ \E b \in Range(bar_log) : b.chunk_index = 0 /\ b.global_y = FromInt(348)
    /\ \E n \in Range(note_log) :
          n.chunk_index = 1 /\ n.lane = 1 /\ n.global_y = FromInt(353)
    /\ ~\E n \in Range(note_log) : n.chunk_index = 1 /\ n.lane = 3

====
